---- MODULE Spec2Model ----
(***************************************************************************)
(* Model of the Jenkins facade (libraries/jenkins_api.py), its connection  *)
(* provider (libraries/jenkins_server.py) and the tool adapters            *)
(* (tools/tool_jenkins_*.py).                                              *)
(*                                                                         *)
(* The remote Jenkins server is the state: its job list, the membership of *)
(* its global views and the builds of each job.  A Python call is modelled *)
(* by its outcome: the value it returns, the exception that leaves it, the *)
(* remote calls it issued and the server it leaves behind.  A name is a    *)
(* sequence of one-character strings, so that matching can be computed.    *)
(***************************************************************************)
EXTENDS Integers, Sequences, FiniteSets, TLC

VARIABLES jobs, views, builds, last

vars == <<jobs, views, builds, last>>

\* ------------------------------------------------------------------ bounds
\* longest search string drawn by the search specification
MaxPatLen == 3
\* longest job list the search specification starts from
MaxJobs == 2
\* most builds a job accumulates
MaxBuilds == 1

\* ------------------------------------------------------------- vocabulary
Range(s) == {s[i] : i \in 1..Len(s)}

\* characters names and search strings are made of
Alphabet == {"a", "b", "x", ".", "A"}

n_a_dot_b == <<"a", ".", "b">>
n_axb == <<"a", "x", "b">>
n_A_dot_b == <<"A", ".", "b">>

\* job names the facade operations are called with
JobNames == {n_a_dot_b, n_axb}
\* job names a server of the search specification may hold
SearchNames == {n_a_dot_b, n_axb, n_A_dot_b}

\* the global views of the server, and the views of the user's my-views
GlobalViews == {"Team-A"}
\* Python's None passed for an optional string parameter
NoneStr == "<None>"
\* view names the operations are called with
ViewNames == GlobalViews \cup {"mine", "blank", "bare", "nope"}

\* JSON documents served at /user/<username>/my-views/view/<name>/api/json
MyViews ==
  [ mine  |-> [jobs |-> << [name |-> n_a_dot_b, url |-> "u1"],
                           [url |-> "u2"],
                           [name |-> n_A_dot_b, url |-> "u3"] >>],
    blank |-> [jobs |-> << >>],
    bare  |-> [description |-> "no jobs key"] ]

\* sequences without repetition over a set, up to a length
RECURSIVE DistinctSeqs(_, _)
DistinctSeqs(S, n) ==
  IF n = 0 \/ S = {} THEN {<< >>}
  ELSE {<< >>} \cup UNION {{<<e>> \o t : t \in DistinctSeqs(S \ {e}, n - 1)} : e \in S}

\* sequences over a set, up to a length
RECURSIVE SeqsUpTo(_, _)
SeqsUpTo(S, n) ==
  IF n = 0 THEN {<< >>}
  ELSE LET shorter == SeqsUpTo(S, n - 1)
       IN shorter \cup {Append(t, e) : t \in shorter, e \in S}

\* ------------------------------------------------------------ Python values
None == [kind |-> "None"]
Bool(b) == [kind |-> "bool", val |-> b]
List(s) == [kind |-> "list", val |-> s]
Dict(d) == [kind |-> "dict", val |-> d]
Str(s) == [kind |-> "str", val |-> s]
IntV(i) == [kind |-> "int", val |-> i]
JobObj(n) == [kind |-> "Job", name |-> n]
ViewObj(n) == [kind |-> "View", name |-> n]
BuildObj(j, n) == [kind |-> "Build", job |-> j, number |-> n]

\* Python truth value of a returned value
Truthy(v) ==
  CASE v.kind = "None" -> FALSE
    [] v.kind = "bool" -> v.val
    [] v.kind = "list" -> v.val # << >>
    [] v.kind = "dict" -> DOMAIN v.val # {}
    [] v.kind = "str" -> TRUE  \* every string the model builds is non-empty
    [] v.kind = "int" -> v.val # 0
    [] OTHER -> TRUE

\* ------------------------------------------------------------- outcomes
\* remote calls whose failure the environment may inject; "none": all answer
Faults ==
  {"none", "has_job", "get_job", "get_jobs_list", "views", "get_params",
   "is_queued_or_running", "create_job", "copy_job", "rename_job",
   "delete_job", "build_job", "add_job", "remove_job", "get_last_build",
   "get_build", "stop", "build_field", "http_conn", "http_status", "http_json"}

Server == [jobs |-> jobs, views |-> views, builds |-> builds]

\* the call returned ret after issuing calls, leaving the server as srv
Return(ret, calls, srv) == [ret |-> ret, exc |-> "none", calls |-> calls, srv |-> srv]
\* the call was left by an exception of class exc
Raise(exc, calls, srv) == [ret |-> None, exc |-> exc, calls |-> calls, srv |-> srv]
Raised(o) == o.exc # "none"

\* ------------------------------------------------- the server's object model
HasJob(name) == name \in Range(jobs)

\* parameter definitions of a job's configuration, as job.get_params() yields them
DeclaredParams(name) ==
  IF name = n_a_dot_b
  THEN << [defaultParameterValue |-> [name |-> "ENV", value |-> "staging"]] >>
  ELSE << >>

\* the job's last build is queued or running
IsRunning(name) == builds[name] # << >> /\ builds[name][Len(builds[name])]

Remove(s, e) == LET Keep(x) == x # e IN SelectSeq(s, Keep)
Rename(s, old, new) == [i \in 1..Len(s) |-> IF s[i] = old THEN new ELSE s[i]]

\* the server after each mutation
AfterCreate(name) ==
  [jobs |-> Append(jobs, name), views |-> views, builds |-> builds]
AfterDelete(name) ==
  [jobs |-> Remove(jobs, name),
   views |-> [v \in DOMAIN views |-> Remove(views[v], name)],
   builds |-> [builds EXCEPT ![name] = << >>]]
AfterRename(old, new) ==
  [jobs |-> Rename(jobs, old, new),
   views |-> [v \in DOMAIN views |-> Rename(views[v], old, new)],
   builds |-> [builds EXCEPT ![new] = builds[old], ![old] = << >>]]
AfterBuild(name) ==
  [jobs |-> jobs, views |-> views,
   builds |-> [builds EXCEPT ![name] = Append(@, TRUE)]]
AfterStop(name) ==
  [jobs |-> jobs, views |-> views,
   builds |-> [builds EXCEPT ![name] = [@ EXCEPT ![Len(@)] = FALSE]]]

\* an add that leaves the view with the added job alone
AfterAdd_replacing(view_name, name) ==
  [jobs |-> jobs,
   views |-> [views EXCEPT ![view_name] = <<name>>],
   builds |-> builds]

AfterAdd(view_name, name) ==
  [jobs |-> jobs,
   views |-> [views EXCEPT ![view_name] =
                IF name \in Range(@) THEN @ ELSE Append(@, name)],
   builds |-> builds]
AfterRemove(view_name, name) ==
  [jobs |-> jobs,
   views |-> [views EXCEPT ![view_name] = Remove(@, name)],
   builds |-> builds]

\* an existence check that answers True whatever the server holds
is_job_exists_always(job_name, flt) ==
  IF flt = "has_job"
  THEN Raise("ConnectionError", <<"has_job">>, Server)
  ELSE Return(Bool(TRUE), <<"has_job">>, Server)

\* ============================== JenkinsAPI: Job ==============================
is_job_exists(job_name, flt) ==
  IF flt = "has_job"
  THEN Raise("ConnectionError", <<"has_job">>, Server)
  ELSE Return(Bool(HasJob(job_name)), <<"has_job">>, Server)

\* get_job that creates the job it does not find
get_job_creating(job_name, flt) ==
  LET e == is_job_exists(job_name, flt)
  IN IF Raised(e) THEN e
     ELSE IF e.ret.val
     THEN IF flt = "get_job"
          THEN Raise("ConnectionError", e.calls \o <<"get_job">>, Server)
          ELSE Return(JobObj(job_name), e.calls \o <<"get_job">>, Server)
     ELSE Return(JobObj(job_name), e.calls \o <<"create_job">>, AfterCreate(job_name))

get_job(job_name, flt) ==
  LET e == is_job_exists(job_name, flt)
  IN IF Raised(e) THEN e
     ELSE IF e.ret.val
     THEN IF flt = "get_job"
          THEN Raise("ConnectionError", e.calls \o <<"get_job">>, Server)
          ELSE Return(JobObj(job_name), e.calls \o <<"get_job">>, Server)
     ELSE Return(None, e.calls, Server)

is_job_queued_or_running(job_name, flt) ==
  LET job == get_job(job_name, flt)
  IN IF Raised(job) THEN job
     ELSE IF job.ret.kind = "None"
     THEN Raise("AttributeError", job.calls, Server)
     ELSE IF flt = "is_queued_or_running"
     THEN Raise("ConnectionError", job.calls \o <<"is_queued_or_running">>, Server)
     ELSE Return(Bool(IsRunning(job_name)),
                 job.calls \o <<"is_queued_or_running">>, Server)

\* get_job_default_params answering None for a job that declares no parameter
get_job_default_params_falsy(job_name, flt) ==
  LET e == is_job_exists(job_name, flt)
  IN IF Raised(e) THEN e
     ELSE IF e.ret.val
     THEN IF flt = "get_job"
          THEN Raise("ConnectionError", e.calls \o <<"get_job">>, Server)
          ELSE IF flt = "get_params"
          THEN Raise("ConnectionError", e.calls \o <<"get_job", "get_params">>, Server)
          ELSE LET defs == DeclaredParams(job_name)
                   keys == {defs[i].defaultParameterValue.name : i \in 1..Len(defs)}
                   value(k) == LET i == CHOOSE m \in 1..Len(defs) :
                                          defs[m].defaultParameterValue.name = k
                               IN defs[i].defaultParameterValue.value
               IN Return(IF keys = {} THEN None ELSE Dict([k \in keys |-> value(k)]),
                         e.calls \o <<"get_job", "get_params">>, Server)
     ELSE Return(None, e.calls, Server)

get_job_default_params(job_name, flt) ==
  LET e == is_job_exists(job_name, flt)
  IN IF Raised(e) THEN e
     ELSE IF e.ret.val
     THEN IF flt = "get_job"
          THEN Raise("ConnectionError", e.calls \o <<"get_job">>, Server)
          ELSE IF flt = "get_params"
          THEN Raise("ConnectionError", e.calls \o <<"get_job", "get_params">>, Server)
          ELSE LET defs == DeclaredParams(job_name)
                   keys == {defs[i].defaultParameterValue.name : i \in 1..Len(defs)}
                   value(k) == LET i == CHOOSE m \in 1..Len(defs) :
                                          /\ defs[m].defaultParameterValue.name = k
                                          /\ \A l \in (m + 1)..Len(defs) :
                                               defs[l].defaultParameterValue.name # k
                               IN defs[i].defaultParameterValue.value
               IN Return(Dict([k \in keys |-> value(k)]),
                         e.calls \o <<"get_job", "get_params">>, Server)
     ELSE Return(None, e.calls, Server)

get_job_baseurl(job_name, flt) ==
  LET job == get_job(job_name, flt)
  IN IF Raised(job) THEN job
     ELSE IF job.ret.kind # "None"
     THEN Return(Str([job_url |-> job_name]), job.calls, Server)
     ELSE Return(None, job.calls, Server)

\* create_job answering with a job the server did not store
create_job_unsaved(job_name, flt) ==
  IF flt = "create_job"
  THEN Return(None, <<"create_job">>, Server)
  ELSE Return(JobObj(job_name), <<"create_job">>, Server)

create_job(job_name, flt) ==
  IF flt = "create_job"
  THEN Return(None, <<"create_job">>, Server)
  ELSE IF HasJob(job_name)
  THEN Return(JobObj(job_name), <<"create_job">>, Server)
  ELSE Return(JobObj(job_name), <<"create_job">>, AfterCreate(job_name))

clone_job(job_name, new_job_name, flt) ==
  LET e == is_job_exists(job_name, flt)
  IN IF Raised(e) THEN e
     ELSE IF e.ret.val
     THEN IF flt = "copy_job" \/ HasJob(new_job_name)
          THEN Return(None, e.calls \o <<"copy_job">>, Server)
          ELSE Return(JobObj(new_job_name), e.calls \o <<"copy_job">>,
                      AfterCreate(new_job_name))
     ELSE Return(None, e.calls, Server)

rename_job(job_name, new_job_name, flt) ==
  LET e == is_job_exists(job_name, flt)
  IN IF Raised(e) THEN e
     ELSE IF e.ret.val
     THEN IF flt = "rename_job" \/ HasJob(new_job_name)
          THEN Return(None, e.calls \o <<"rename_job">>, Server)
          ELSE Return(JobObj(new_job_name), e.calls \o <<"rename_job">>,
                      AfterRename(job_name, new_job_name))
     ELSE Return(None, e.calls, Server)

\* delete_job without its existence check
delete_job_unchecked(job_name, flt) ==
  IF flt = "delete_job" \/ ~HasJob(job_name)
  THEN Return(Bool(FALSE), <<"delete_job">>, Server)
  ELSE Return(Bool(TRUE), <<"delete_job">>, AfterDelete(job_name))

delete_job(job_name, flt) ==
  LET e == is_job_exists(job_name, flt)
  IN IF Raised(e) THEN e
     ELSE IF e.ret.val
     THEN IF flt = "delete_job"
          THEN Return(Bool(FALSE), e.calls \o <<"delete_job">>, Server)
          ELSE Return(Bool(TRUE), e.calls \o <<"delete_job">>, AfterDelete(job_name))
     ELSE Return(Bool(FALSE), e.calls, Server)

\* build_job without its existence check
build_job_unchecked(job_name, flt) ==
  IF flt = "build_job" \/ ~HasJob(job_name)
  THEN Return(Bool(FALSE), <<"build_job">>, Server)
  ELSE Return(Bool(TRUE), <<"build_job">>, AfterBuild(job_name))

build_job(job_name, flt) ==
  LET e == is_job_exists(job_name, flt)
  IN IF Raised(e) THEN e
     ELSE IF e.ret.val
     THEN IF flt = "build_job"
          THEN Return(Bool(FALSE), e.calls \o <<"build_job">>, Server)
          ELSE Return(Bool(TRUE), e.calls \o <<"build_job">>, AfterBuild(job_name))
     ELSE Return(Bool(FALSE), e.calls, Server)

\* ============================== JenkinsAPI: View =============================
\* the names the server lists as global views, in its order
GlobalViewList == <<"Team-A">>

get_views(flt) ==
  IF flt = "views"
  THEN Raise("ConnectionError", <<"views">>, Server)
  ELSE Return(List(GlobalViewList), <<"views">>, Server)

get_view(view_name, flt) ==
  LET vs == get_views(flt)
  IN IF Raised(vs) THEN vs
     ELSE IF view_name \in Range(vs.ret.val)
     THEN Return(ViewObj(view_name), vs.calls \o <<"view">>, Server)
     ELSE Return(None, vs.calls, Server)

\* reading the entries that gives up at the first one without a name
EntryNames_untilnameless(data) ==
  LET entries == IF "jobs" \in DOMAIN data THEN data.jobs ELSE << >>
      nameless == {i \in 1..Len(entries) : "name" \notin DOMAIN entries[i]}
      upto == IF nameless = {} THEN Len(entries)
              ELSE (CHOOSE i \in nameless : \A k \in nameless : i <= k) - 1
  IN [i \in 1..upto |-> entries[i].name]

\* the names of the entries of a my-views response that carry one, in order
EntryNames(data) ==
  LET entries == IF "jobs" \in DOMAIN data THEN data.jobs ELSE << >>
      HasName(job) == "name" \in DOMAIN job
      named == SelectSeq(entries, HasName)
  IN [i \in 1..Len(named) |-> named[i].name]

\* get_jobs_from_view returning None for a view without jobs
get_jobs_from_view_falsy(view_name, flt) ==
  LET view == get_view(view_name, flt)
      OrNone(names) == IF names = << >> THEN None ELSE List(names)
  IN IF Raised(view) THEN view
     ELSE IF view.ret.kind # "None"
     THEN Return(OrNone(views[view_name]), view.calls \o <<"view_keys">>, Server)
     ELSE LET calls == view.calls \o <<"http_get">>
          IN IF flt = "http_conn"
             THEN Raise("ConnectionError", calls, Server)
             ELSE IF flt = "http_status" \/ view_name \notin DOMAIN MyViews
             THEN Return(None, calls, Server)
             ELSE IF flt = "http_json"
             THEN Raise("JSONDecodeError", calls \o <<"response_json">>, Server)
             ELSE Return(OrNone(EntryNames(MyViews[view_name])),
                         calls \o <<"response_json">>, Server)

get_jobs_from_view(view_name, flt) ==
  LET view == get_view(view_name, flt)
  IN IF Raised(view) THEN view
     ELSE IF view.ret.kind # "None"
     THEN Return(List(views[view_name]), view.calls \o <<"view_keys">>, Server)
     ELSE LET calls == view.calls \o <<"http_get">>
          IN IF flt = "http_conn"
             THEN Raise("ConnectionError", calls, Server)
             ELSE IF flt = "http_status" \/ view_name \notin DOMAIN MyViews
             THEN Return(None, calls, Server)
             ELSE IF flt = "http_json"
             THEN Raise("JSONDecodeError", calls \o <<"response_json">>, Server)
             ELSE Return(List(EntryNames(MyViews[view_name])),
                         calls \o <<"response_json">>, Server)

get_view_baseurl(view_name, flt) ==
  LET view == get_view(view_name, flt)
  IN IF Raised(view) THEN view
     ELSE IF view.ret.kind # "None"
     THEN Return(Str([view_url |-> view_name]), view.calls, Server)
     ELSE Return(None, view.calls, Server)

\* add_job_to_view without its check that the job exists
add_job_to_view_anyjob(view_name, job_name, flt) ==
  LET view == get_view(view_name, flt)
  IN IF Raised(view) THEN view
     ELSE IF view.ret.kind = "None"
     THEN Return(Bool(FALSE), view.calls, Server)
     ELSE IF flt = "add_job"
     THEN Raise("ConnectionError", view.calls \o <<"add_job">>, Server)
     ELSE Return(Bool(TRUE), view.calls \o <<"add_job">>,
                 AfterAdd(view_name, job_name))

add_job_to_view(view_name, job_name, flt) ==
  LET view == get_view(view_name, flt)
  IN IF Raised(view) THEN view
     ELSE IF view.ret.kind = "None"
     THEN Return(Bool(FALSE), view.calls, Server)
     ELSE LET e == is_job_exists(job_name, flt)
              calls == view.calls \o e.calls
          IN IF Raised(e) THEN Raise(e.exc, calls, Server)
             ELSE IF ~e.ret.val THEN Return(Bool(FALSE), calls, Server)
             ELSE IF flt = "add_job"
             THEN Raise("ConnectionError", calls \o <<"add_job">>, Server)
             ELSE Return(Bool(TRUE), calls \o <<"add_job">>,
                         AfterAdd(view_name, job_name))

remove_job_from_view(view_name, job_name, flt) ==
  LET view == get_view(view_name, flt)
  IN IF Raised(view) THEN view
     ELSE IF view.ret.kind = "None"
     THEN Return(Bool(FALSE), view.calls, Server)
     ELSE LET e == is_job_exists(job_name, flt)
              calls == view.calls \o e.calls
          IN IF Raised(e) THEN Raise(e.exc, calls, Server)
             ELSE IF ~e.ret.val THEN Return(Bool(FALSE), calls, Server)
             ELSE IF flt = "remove_job"
             THEN Raise("ConnectionError", calls \o <<"remove_job">>, Server)
             ELSE Return(Bool(TRUE), calls \o <<"remove_job">>,
                         AfterRemove(view_name, job_name))

\* ============================== JenkinsAPI: Build ============================
\* a build_number argument: a number, or 0 for Python's None
NoBuildNumber == 0

\* stop_last_build without its check that the job has a last build
stop_last_build_unguarded(job_name, flt) ==
  LET job == get_job(job_name, flt)
  IN IF Raised(job) THEN job
     ELSE IF job.ret.kind = "None" THEN Return(Bool(FALSE), job.calls, Server)
     ELSE LET calls == job.calls \o <<"get_last_build">>
          IN IF flt = "get_last_build" THEN Raise("ConnectionError", calls, Server)
             ELSE IF flt = "stop"
             THEN Raise("ConnectionError", calls \o <<"stop">>, Server)
             ELSE IF IsRunning(job_name)
             THEN Return(Bool(TRUE), calls \o <<"stop">>, AfterStop(job_name))
             ELSE Return(Bool(FALSE), calls \o <<"stop">>, Server)

stop_last_build(job_name, flt) ==
  LET job == get_job(job_name, flt)
  IN IF Raised(job) THEN job
     ELSE IF job.ret.kind = "None" THEN Return(Bool(FALSE), job.calls, Server)
     ELSE LET calls == job.calls \o <<"get_last_build">>
          IN IF flt = "get_last_build" THEN Raise("ConnectionError", calls, Server)
             ELSE IF builds[job_name] = << >> THEN Return(Bool(FALSE), calls, Server)
             ELSE IF flt = "stop"
             THEN Raise("ConnectionError", calls \o <<"stop">>, Server)
             ELSE IF IsRunning(job_name)
             THEN Return(Bool(TRUE), calls \o <<"stop">>, AfterStop(job_name))
             ELSE Return(Bool(FALSE), calls \o <<"stop">>, Server)

\* get_build without its build_number is None branch: None is looked up as a number
get_build_numbered(job_name, build_number, flt) ==
  LET job == get_job(job_name, flt)
  IN IF Raised(job) THEN job
     ELSE IF job.ret.kind = "None" THEN Return(None, job.calls, Server)
     ELSE LET calls == job.calls \o <<"get_build">>
          IN IF flt = "get_build" THEN Raise("ConnectionError", calls, Server)
             ELSE IF build_number \notin 1..Len(builds[job_name])
             THEN Raise("NotFound", calls, Server)
             ELSE Return(BuildObj(job_name, build_number), calls, Server)

get_build(job_name, build_number, flt) ==
  LET job == get_job(job_name, flt)
  IN IF Raised(job) THEN job
     ELSE IF job.ret.kind = "None" THEN Return(None, job.calls, Server)
     ELSE IF build_number = NoBuildNumber
     THEN LET calls == job.calls \o <<"get_last_build">>
          IN IF flt = "get_last_build" THEN Raise("ConnectionError", calls, Server)
             ELSE IF builds[job_name] = << >> THEN Return(None, calls, Server)
             ELSE Return(BuildObj(job_name, Len(builds[job_name])), calls, Server)
     ELSE LET calls == job.calls \o <<"get_build">>
          IN IF flt = "get_build" THEN Raise("ConnectionError", calls, Server)
             ELSE IF build_number \notin 1..Len(builds[job_name])
             THEN Raise("NotFound", calls, Server)
             ELSE Return(BuildObj(job_name, build_number), calls, Server)

\* what the server reports of a build
BuildStatus(b) == IF builds[b.job][b.number] THEN None ELSE Str("ABORTED")
BuildDuration(b) == IF builds[b.job][b.number] THEN IntV(0) ELSE IntV(b.number)
BuildField(field, b) ==
  CASE field = "number" -> IntV(b.number)
    [] field = "start_time" -> [kind |-> "datetime", tz |-> "local", build |-> b.number]
    [] field = "duration" -> BuildDuration(b)
    [] field = "status" -> BuildStatus(b)
    [] field = "params" -> Dict(<< >>)
    [] field = "console" -> Str([console_of |-> b.number])

\* the shape shared by the build projections: resolve the build, project a field
Projection(field, job_name, build_number, flt) ==
  LET build == get_build(job_name, build_number, flt)
  IN IF Raised(build) THEN build
     ELSE IF build.ret.kind = "None" THEN Return(None, build.calls, Server)
     ELSE IF flt = "build_field"
     THEN Raise("ConnectionError", build.calls \o <<field>>, Server)
     ELSE Return(BuildField(field, build.ret), build.calls \o <<field>>, Server)

get_last_build_number(job_name, flt) == Projection("number", job_name, NoBuildNumber, flt)
get_build_start_time(job_name, build_number, flt) ==
  Projection("start_time", job_name, build_number, flt)
get_build_duration(job_name, build_number, flt) ==
  Projection("duration", job_name, build_number, flt)
get_build_status(job_name, build_number, flt) ==
  Projection("status", job_name, build_number, flt)
get_build_params(job_name, build_number, flt) ==
  Projection("params", job_name, build_number, flt)
get_build_console(job_name, build_number, flt) ==
  Projection("console", job_name, build_number, flt)

\* ============================== search_job ==================================
\* the characters re.escape prefixes with a backslash
SpecialChars ==
  {"(", ")", "[", "]", "{", "}", "?", "*", "+", "-", "|", "^", "$", "\\", ".",
   "&", "~", "#", " "}

RECURSIVE re_escape(_)
re_escape(s) ==
  IF s = << >> THEN << >>
  ELSE (IF Head(s) \in SpecialChars THEN <<"\\", Head(s)>> ELSE <<Head(s)>>)
       \o re_escape(Tail(s))

\* the atoms of a pattern made of literals, escaped characters and dots
RECURSIVE re_compile(_)
re_compile(p) ==
  IF p = << >> THEN << >>
  ELSE IF Head(p) = "\\" /\ Len(p) >= 2
  THEN <<[atom |-> "literal", char |-> p[2]]>> \o re_compile(SubSeq(p, 3, Len(p)))
  ELSE IF Head(p) = "."
  THEN <<[atom |-> "any"]>> \o re_compile(Tail(p))
  ELSE <<[atom |-> "literal", char |-> Head(p)]>> \o re_compile(Tail(p))

\* case folding of re.IGNORECASE
Lower(c) == IF c = "A" THEN "a" ELSE c

\* case folding applied to the pattern only
AtomMatches_foldpattern(a, c, ignorecase) ==
  \/ a.atom = "any"
  \/ a.atom = "literal" /\ (IF ignorecase THEN Lower(a.char) = c ELSE a.char = c)

AtomMatches(a, c, ignorecase) ==
  \/ a.atom = "any"
  \/ a.atom = "literal" /\ (IF ignorecase THEN Lower(a.char) = Lower(c) ELSE a.char = c)

\* re.search(pattern, string, flags) finds a match
re_search(pattern, string, ignorecase) ==
  LET atoms == re_compile(pattern)
  IN \E start \in 0..(Len(string) - Len(atoms)) :
       \A k \in 1..Len(atoms) : AtomMatches(atoms[k], string[start + k], ignorecase)

\* the search string handed to re.search as it is
SearchPattern_raw(search_string) == search_string

\* the pattern search_job hands to re.search
SearchPattern(search_string) == re_escape(search_string)

\* the matches collected in the opposite order
MatchingJobs_reversed(search_string, all_jobs, is_case_sensitive) ==
  LET Hit(job) == re_search(SearchPattern(search_string), job, ~is_case_sensitive)
      hits == SelectSeq(all_jobs, Hit)
  IN [i \in 1..Len(hits) |-> hits[Len(hits) + 1 - i]]

\* the list comprehensions of search_job
MatchingJobs(search_string, all_jobs, is_case_sensitive) ==
  LET escaped_search_string == SearchPattern(search_string)
      Hit(job) == re_search(escaped_search_string, job, ~is_case_sensitive)
  IN SelectSeq(all_jobs, Hit)

\* search_job searching every job when the view resolves on neither path
search_job_fallback(search_string, view_name, is_case_sensitive, flt) ==
  IF view_name # NoneStr /\ view_name # ""
  THEN LET view == get_view(view_name, flt)
       IN IF Raised(view) THEN view
          ELSE IF view.ret.kind # "None"
          THEN Return(List(MatchingJobs(search_string, views[view_name], is_case_sensitive)),
                      view.calls \o <<"view_keys">>, Server)
          ELSE LET v == get_jobs_from_view(view_name, flt)
                   calls == view.calls \o v.calls
               IN IF Raised(v) THEN Raise(v.exc, calls, Server)
                  ELSE IF v.ret.kind # "None"
                  THEN Return(List(MatchingJobs(search_string, v.ret.val, is_case_sensitive)),
                              calls, Server)
                  ELSE Return(List(MatchingJobs(search_string, jobs, is_case_sensitive)),
                              calls, Server)
  ELSE IF flt = "get_jobs_list"
  THEN Raise("ConnectionError", <<"get_jobs_list">>, Server)
  ELSE Return(List(MatchingJobs(search_string, jobs, is_case_sensitive)),
              <<"get_jobs_list">>, Server)

search_job(search_string, view_name, is_case_sensitive, flt) ==
  IF view_name # NoneStr /\ view_name # ""
  THEN LET view == get_view(view_name, flt)
       IN IF Raised(view) THEN view
          ELSE IF view.ret.kind # "None"
          THEN Return(List(MatchingJobs(search_string, views[view_name], is_case_sensitive)),
                      view.calls \o <<"view_keys">>, Server)
          ELSE LET v == get_jobs_from_view(view_name, flt)
                   calls == view.calls \o v.calls
               IN IF Raised(v) THEN Raise(v.exc, calls, Server)
                  ELSE IF v.ret.kind # "None"
                  THEN Return(List(MatchingJobs(search_string, v.ret.val, is_case_sensitive)),
                              calls, Server)
                  ELSE Return(List(<< >>), calls, Server)
  ELSE IF flt = "get_jobs_list"
  THEN Raise("ConnectionError", <<"get_jobs_list">>, Server)
  ELSE Return(List(MatchingJobs(search_string, jobs, is_case_sensitive)),
              <<"get_jobs_list">>, Server)

\* ============================== JenkinsServer ================================
\* how the server answers the login of Jenkins(baseurl, username, password)
AuthAnswers == {"ok", "HTTPError", "ConnectionError"}

\* model_post_init: the client is constructed before the try block, whose body
\* (a log line and an assignment) is all the except clause guards
model_post_init(auth) ==
  IF auth # "ok"
  THEN [exc |-> auth, jenkins_server |-> None, log |-> << >>]
  ELSE LET try_exc == "none"
       IN IF try_exc = "HTTPError"
          THEN [exc |-> "none", jenkins_server |-> None,
                log |-> <<[level |-> "ERROR", text |-> "[Auth] Failed to login"]>>]
          ELSE [exc |-> "none", jenkins_server |-> [kind |-> "Jenkins"],
                log |-> <<[level |-> "INFO", text |-> "[Auth] Welcome"]>>]

\* JenkinsAPI.__init__ copies the fields of a fresh JenkinsServer
JenkinsAPI_init(auth) == model_post_init(auth)

\* the methods class JenkinsAPI defines
JenkinsAPIMethods ==
  {"is_job_exists", "is_job_queued_or_running", "get_job", "get_job_default_params",
   "get_job_baseurl", "search_job", "create_job", "clone_job", "rename_job",
   "delete_job", "build_job", "get_views", "get_view", "get_jobs_from_view",
   "get_view_baseurl", "add_job_to_view", "remove_job_from_view", "stop_last_build",
   "get_build", "get_last_build_number", "get_build_start_time", "get_build_duration",
   "get_build_status", "get_build_params", "get_build_console"}

\* ============================== tool adapters ================================
Msg(template, value) == Str([template |-> template, value |-> value])

\* looking up a name JenkinsAPI does not define
Unbound == Raise("AttributeError", << >>, Server)

\* a tool: JenkinsAPI().<method>(...), then one of two f-strings
Tool(auth, method, o, success, ok_text, fail_text) ==
  LET api == JenkinsAPI_init(auth)
  IN IF Raised(api) THEN Raise(api.exc, << >>, Server)
     ELSE IF method \notin JenkinsAPIMethods THEN Raise("AttributeError", << >>, Server)
     ELSE IF Raised(o) THEN o
     ELSE IF success THEN Return(Msg(ok_text, o.ret), o.calls, o.srv)
     ELSE Return(Msg(fail_text, None), o.calls, o.srv)

NotNone(o) == o.ret.kind # "None"

\* --- tools/tool_jenkins_job.py
tool_is_job_exists(auth, job_name, flt) ==
  LET o == is_job_exists(job_name, flt)
  IN Tool(auth, "is_job_exists", o, Truthy(o.ret),
          "Job {job_name} exists.", "Job {job_name} does not exist.")

tool_is_job_queued_or_running(auth, job_name, flt) ==
  LET o == is_job_queued_or_running(job_name, flt)
  IN Tool(auth, "is_job_queued_or_running", o, Truthy(o.ret),
          "Job {job_name} is queued or running.",
          "Job {job_name} is not queued or running.")

tool_get_job_default_params(auth, job_name, flt) ==
  LET o == get_job_default_params(job_name, flt)
  IN Tool(auth, "get_job_default_params", o, NotNone(o),
          "Job {job_name} default parameters: {json}",
          "Failed to get default parameters for job {job_name}.")

tool_get_job_baseurl(auth, job_name, flt) ==
  LET o == get_job_baseurl(job_name, flt)
  IN Tool(auth, "get_job_baseurl", o, Truthy(o.ret),
          "Job {job_name} base URL: {url}", "Failed to get base URL for job {job_name}.")

tool_search_job(auth, search_string, view_name, is_case_sensitive, flt) ==
  LET o == search_job(search_string, view_name, is_case_sensitive, flt)
  IN Tool(auth, "search_job", o, Truthy(o.ret),
          "Found {len} jobs: {json}", "No matching jobs found.")

tool_create_job(auth, job_name, flt) ==
  LET o == create_job(job_name, flt)
  IN Tool(auth, "create_job", o, NotNone(o),
          "Successfully created job {job_name}.", "Failed to create job {job_name}.")

tool_clone_job(auth, job_name, new_job_name, flt) ==
  LET o == clone_job(job_name, new_job_name, flt)
  IN Tool(auth, "clone_job", o, NotNone(o),
          "Successfully cloned job {job_name} to {new_job_name}.",
          "Failed to clone job {job_name} to {new_job_name}.")

tool_rename_job(auth, job_name, new_job_name, flt) ==
  LET o == rename_job(job_name, new_job_name, flt)
  IN Tool(auth, "rename_job", o, NotNone(o),
          "Successfully renamed job {job_name} to {new_job_name}.",
          "Failed to rename job {job_name} to {new_job_name}.")

\* the delete_job tool reporting its failure in other words
tool_delete_job_reworded(auth, job_name, flt) ==
  LET o == delete_job(job_name, flt)
  IN Tool(auth, "delete_job", o, Truthy(o.ret),
          "Successfully deleted job {job_name}.", "Could not delete job {job_name}.")

tool_delete_job(auth, job_name, flt) ==
  LET o == delete_job(job_name, flt)
  IN Tool(auth, "delete_job", o, Truthy(o.ret),
          "Successfully deleted job {job_name}.", "Failed to delete job {job_name}.")

tool_build_job(auth, job_name, flt) ==
  LET o == build_job(job_name, flt)
  IN Tool(auth, "build_job", o, Truthy(o.ret),
          "Successfully triggered build for job {job_name}.",
          "Failed to trigger build for job {job_name}.")

\* --- tools/tool_jenkins_view.py
tool_get_views(auth, flt) ==
  LET o == get_views(flt)
  IN Tool(auth, "get_views", o, Truthy(o.ret),
          "Found {len} views: {json}", "No views found.")

\* tool_get_jobs_from_view telling a missing view (None) from an empty one
tool_get_jobs_from_view_notnone(auth, view_name, flt) ==
  LET o == get_jobs_from_view(view_name, flt)
  IN Tool(auth, "get_jobs_from_view", o, NotNone(o),
          "View {view_name} contains {len} jobs: {json}",
          "No jobs found in view {view_name}.")

tool_get_jobs_from_view(auth, view_name, flt) ==
  LET o == get_jobs_from_view(view_name, flt)
  IN Tool(auth, "get_jobs_from_view", o, Truthy(o.ret),
          "View {view_name} contains {len} jobs: {json}",
          "No jobs found in view {view_name}.")

tool_get_view_baseurl(auth, view_name, flt) ==
  LET o == get_view_baseurl(view_name, flt)
  IN Tool(auth, "get_view_baseurl", o, Truthy(o.ret),
          "Successfully retrieved base URL for view {view_name}: {url}",
          "Failed to retrieve base URL for view {view_name}.")

tool_add_job_to_view(auth, view_name, job_name, flt) ==
  LET o == add_job_to_view(view_name, job_name, flt)
  IN Tool(auth, "add_job_to_view", o, Truthy(o.ret),
          "Successfully added job {job_name} to view {view_name}.",
          "Failed to add job {job_name} to view {view_name}.")

tool_remove_job_from_view(auth, view_name, job_name, flt) ==
  LET o == remove_job_from_view(view_name, job_name, flt)
  IN Tool(auth, "remove_job_from_view", o, Truthy(o.ret),
          "Successfully removed job {job_name} from view {view_name}.",
          "Failed to remove job {job_name} from view {view_name}.")

\* --- tools/tool_jenkins_build.py
tool_stop_last_build(auth, job_name, flt) ==
  LET o == stop_last_build(job_name, flt)
  IN Tool(auth, "stop_last_build", o, Truthy(o.ret),
          "Successfully stopped the last build for job {job_name}.",
          "Failed to stop the last build for job {job_name}.")

tool_get_last_build_number(auth, job_name, flt) ==
  LET o == get_last_build_number(job_name, flt)
  IN Tool(auth, "get_last_build_number", o, NotNone(o),
          "Successfully retrieved last build number for job {job_name}: {num}",
          "Failed to retrieve last build number for job {job_name}.")

tool_get_last_build_start_time(auth, job_name, flt) ==
  Tool(auth, "get_last_build_start_time", Unbound, NotNone(Unbound),
       "Successfully retrieved last build start time for job {job_name}: {local_time}",
       "Failed to retrieve last build start time for job {job_name}.")

tool_get_last_build_duration(auth, job_name, flt) ==
  Tool(auth, "get_last_build_duration", Unbound, NotNone(Unbound),
       "Successfully retrieved last build duration for job {job_name}: {duration} ms",
       "Failed to retrieve last build duration for job {job_name}.")

tool_get_last_build_status(auth, job_name, flt) ==
  Tool(auth, "get_last_build_status", Unbound, NotNone(Unbound),
       "Successfully retrieved last build status for job {job_name}: {status}",
       "Failed to retrieve last build status for job {job_name}.")

tool_get_last_build_params(auth, job_name, flt) ==
  Tool(auth, "get_last_build_params", Unbound, NotNone(Unbound),
       "Successfully retrieved last build parameters for job {job_name}: {json}",
       "Failed to retrieve last build parameters for job {job_name}.")

tool_get_last_build_console(auth, job_name, flt) ==
  Tool(auth, "get_last_build_console", Unbound, NotNone(Unbound),
       "Successfully retrieved last build console output for job {job_name}: {console}",
       "Failed to retrieve last build console output for job {job_name}.")

\* ============================== registration =================================
\* What main registers: register_tools gives the tools by name, each with the
\* parameters of its function (name and default, as written); register_prompts
\* gives the prompts, each under its name without the prefix prompt_.
Registered ==
  LET Param(name, default) == [name |-> name, default |-> default]
      Required == "<required>"
      JobName == Param("job_name", Required)
      ViewName == Param("view_name", Required)
      NewJobName == Param("new_job_name", Required)
  IN [tools |->
        [stop_last_build |-> <<JobName>>,
         get_last_build_number |-> <<JobName>>,
         get_last_build_start_time |-> <<JobName>>,
         get_last_build_duration |-> <<JobName>>,
         get_last_build_status |-> <<JobName>>,
         get_last_build_params |-> <<JobName>>,
         get_last_build_console |-> <<JobName>>,
         is_job_exists |-> <<JobName>>,
         is_job_queued_or_running |-> <<JobName>>,
         get_job_default_params |-> <<JobName>>,
         get_job_baseurl |-> <<JobName>>,
         search_job |-> <<Param("search_string", Required), Param("view_name", "None"),
                          Param("is_case_sensitive", "True")>>,
         create_job |-> <<JobName, Param("config_xml", "None")>>,
         clone_job |-> <<JobName, NewJobName>>,
         rename_job |-> <<JobName, NewJobName>>,
         delete_job |-> <<JobName>>,
         build_job |-> <<JobName, Param("params", "None")>>,
         get_views |-> << >>,
         get_jobs_from_view |-> <<ViewName>>,
         get_view_baseurl |-> <<ViewName>>,
         add_job_to_view |-> <<ViewName, JobName>>,
         remove_job_from_view |-> <<ViewName, JobName>>],
      prompts |->
        [get_job_default_params |-> <<JobName>>,
         get_job_baseurl |-> <<JobName>>,
         search_job |-> <<Param("search_string", Required), Param("view_name", "''"),
                          Param("is_case_sensitive", "False")>>,
         clone_job |-> <<JobName, NewJobName>>,
         rename_job |-> <<JobName, NewJobName>>,
         delete_job |-> <<JobName>>,
         build_job |-> <<JobName, Param("params", "''")>>,
         get_views |-> << >>,
         get_view_baseurl |-> <<ViewName>>,
         add_job_to_view |-> <<JobName, ViewName>>,
         remove_job_from_view |-> <<JobName, ViewName>>,
         stop_last_build |-> <<JobName>>,
         get_last_build_info |-> <<JobName>>]]

\* ============================== the state machine ============================
\* every name a server may hold
AllNames == JobNames \cup SearchNames
\* build_number arguments: None, the numbers a job may have, and one it cannot
BuildNumbers == 0..(MaxBuilds + 1)
\* search strings the facade is called with next to the other operations
SearchSamples == {<< >>, n_a_dot_b, <<"A">>}
\* every search string up to the bound
Patterns == SeqsUpTo(Alphabet, MaxPatLen)
\* view_name arguments of search_job: a view name, None or the empty string
SearchViews == ViewNames \cup {NoneStr, ""}

Idle ==
  [layer |-> "none", op |-> "none", args |-> [none |-> TRUE], auth |-> "ok",
   fault |-> "none", ret |-> None, exc |-> "none", calls |-> << >>, pre |-> Server]

Init ==
  /\ jobs = << >>
  /\ views = [v \in GlobalViews |-> << >>]
  /\ builds = [n \in AllNames |-> << >>]
  /\ last = Idle

\* the remote calls a fault breaks
CallsOf(flt) ==
  CASE flt \in {"http_conn", "http_status"} -> {"http_get"}
    [] flt = "http_json" -> {"response_json"}
    [] flt = "build_field" ->
         {"number", "start_time", "duration", "status", "params", "console"}
    [] OTHER -> {flt}

\* the injected fault was reached: the call it breaks was issued
Hit(flt, calls) == flt # "none" /\ CallsOf(flt) \cap Range(calls) # {}

\* no call is outstanding
Ready == last.layer = "none"

\* Calls are handled one at a time: a call is taken when none is outstanding,
\* runs to completion, and its result stays until it is handed to the caller.
\* One call completes: the server is as the call left it, and the call is recorded
Step(layer, op, args, auth, flt, o) ==
  /\ jobs' = o.srv.jobs
  /\ views' = o.srv.views
  /\ builds' = o.srv.builds
  /\ last' = [layer |-> layer, op |-> op, args |-> args, auth |-> auth,
              fault |-> IF Hit(flt, o.calls) THEN flt ELSE "none",
              ret |-> o.ret, exc |-> o.exc, calls |-> o.calls, pre |-> Server]

\* --- the result of the outstanding call goes back to the caller
Reply ==
  /\ last.layer # "none"
  /\ last' = Idle
  /\ UNCHANGED <<jobs, views, builds>>

\* --- constructing a facade
Construct ==
  /\ Ready
  /\ \E auth \in AuthAnswers :
       LET api == JenkinsAPI_init(auth)
       IN /\ UNCHANGED <<jobs, views, builds>>
          /\ last' = [layer |-> "init", op |-> "JenkinsAPI", args |-> [none |-> TRUE],
                      auth |-> auth, fault |-> "none", ret |-> api.jenkins_server,
                      exc |-> api.exc, calls |-> << >>,
                      pre |-> Server, log |-> api.log]

\* --- calls of the facade's methods on a constructed facade
Call_is_job_exists ==
  /\ Ready
  /\ \E job_name \in JobNames, flt \in Faults :
       Step("facade", "is_job_exists", [job_name |-> job_name], "ok", flt,
            is_job_exists(job_name, flt))

Call_is_job_queued_or_running ==
  /\ Ready
  /\ \E job_name \in JobNames, flt \in Faults :
       Step("facade", "is_job_queued_or_running", [job_name |-> job_name], "ok", flt,
            is_job_queued_or_running(job_name, flt))

Call_get_job ==
  /\ Ready
  /\ \E job_name \in JobNames, flt \in Faults :
       Step("facade", "get_job", [job_name |-> job_name], "ok", flt,
            get_job(job_name, flt))

Call_get_job_default_params ==
  /\ Ready
  /\ \E job_name \in JobNames, flt \in Faults :
       Step("facade", "get_job_default_params", [job_name |-> job_name], "ok", flt,
            get_job_default_params(job_name, flt))

Call_get_job_baseurl ==
  /\ Ready
  /\ \E job_name \in JobNames, flt \in Faults :
       Step("facade", "get_job_baseurl", [job_name |-> job_name], "ok", flt,
            get_job_baseurl(job_name, flt))

Call_create_job ==
  /\ Ready
  /\ \E job_name \in JobNames, flt \in Faults :
       Step("facade", "create_job", [job_name |-> job_name], "ok", flt,
            create_job(job_name, flt))

Call_clone_job ==
  /\ Ready
  /\ \E job_name \in JobNames, new_job_name \in JobNames, flt \in Faults :
       Step("facade", "clone_job",
            [job_name |-> job_name, new_job_name |-> new_job_name], "ok", flt,
            clone_job(job_name, new_job_name, flt))

Call_rename_job ==
  /\ Ready
  /\ \E job_name \in JobNames, new_job_name \in JobNames, flt \in Faults :
       Step("facade", "rename_job",
            [job_name |-> job_name, new_job_name |-> new_job_name], "ok", flt,
            rename_job(job_name, new_job_name, flt))

Call_delete_job ==
  /\ Ready
  /\ \E job_name \in JobNames, flt \in Faults :
       Step("facade", "delete_job", [job_name |-> job_name], "ok", flt,
            delete_job(job_name, flt))

Call_get_views ==
  /\ Ready
  /\ \E flt \in Faults :
       Step("facade", "get_views", [none |-> TRUE], "ok", flt,
            get_views(flt))

Call_get_view ==
  /\ Ready
  /\ \E view_name \in ViewNames, flt \in Faults :
       Step("facade", "get_view", [view_name |-> view_name], "ok", flt,
            get_view(view_name, flt))

Call_get_jobs_from_view ==
  /\ Ready
  /\ \E view_name \in ViewNames, flt \in Faults :
       Step("facade", "get_jobs_from_view", [view_name |-> view_name], "ok", flt,
            get_jobs_from_view(view_name, flt))

Call_get_view_baseurl ==
  /\ Ready
  /\ \E view_name \in ViewNames, flt \in Faults :
       Step("facade", "get_view_baseurl", [view_name |-> view_name], "ok", flt,
            get_view_baseurl(view_name, flt))

Call_add_job_to_view ==
  /\ Ready
  /\ \E view_name \in ViewNames, job_name \in JobNames, flt \in Faults :
       Step("facade", "add_job_to_view",
            [view_name |-> view_name, job_name |-> job_name], "ok", flt,
            add_job_to_view(view_name, job_name, flt))

Call_remove_job_from_view ==
  /\ Ready
  /\ \E view_name \in ViewNames, job_name \in JobNames, flt \in Faults :
       Step("facade", "remove_job_from_view",
            [view_name |-> view_name, job_name |-> job_name], "ok", flt,
            remove_job_from_view(view_name, job_name, flt))

Call_stop_last_build ==
  /\ Ready
  /\ \E job_name \in JobNames, flt \in Faults :
       Step("facade", "stop_last_build", [job_name |-> job_name], "ok", flt,
            stop_last_build(job_name, flt))

Call_get_build ==
  /\ Ready
  /\ \E job_name \in JobNames, build_number \in BuildNumbers, flt \in Faults :
       Step("facade", "get_build",
            [job_name |-> job_name, build_number |-> build_number], "ok", flt,
            get_build(job_name, build_number, flt))

Call_get_last_build_number ==
  /\ Ready
  /\ \E job_name \in JobNames, flt \in Faults :
       Step("facade", "get_last_build_number", [job_name |-> job_name], "ok", flt,
            get_last_build_number(job_name, flt))

Call_get_build_start_time ==
  /\ Ready
  /\ \E job_name \in JobNames, build_number \in BuildNumbers, flt \in Faults :
       Step("facade", "get_build_start_time",
            [job_name |-> job_name, build_number |-> build_number], "ok", flt,
            get_build_start_time(job_name, build_number, flt))

Call_get_build_duration ==
  /\ Ready
  /\ \E job_name \in JobNames, build_number \in BuildNumbers, flt \in Faults :
       Step("facade", "get_build_duration",
            [job_name |-> job_name, build_number |-> build_number], "ok", flt,
            get_build_duration(job_name, build_number, flt))

Call_get_build_status ==
  /\ Ready
  /\ \E job_name \in JobNames, build_number \in BuildNumbers, flt \in Faults :
       Step("facade", "get_build_status",
            [job_name |-> job_name, build_number |-> build_number], "ok", flt,
            get_build_status(job_name, build_number, flt))

Call_get_build_params ==
  /\ Ready
  /\ \E job_name \in JobNames, build_number \in BuildNumbers, flt \in Faults :
       Step("facade", "get_build_params",
            [job_name |-> job_name, build_number |-> build_number], "ok", flt,
            get_build_params(job_name, build_number, flt))

Call_get_build_console ==
  /\ Ready
  /\ \E job_name \in JobNames, build_number \in BuildNumbers, flt \in Faults :
       Step("facade", "get_build_console",
            [job_name |-> job_name, build_number |-> build_number], "ok", flt,
            get_build_console(job_name, build_number, flt))

Call_build_job ==
  /\ Ready
  /\ \E job_name \in JobNames, flt \in Faults :
       /\ Len(builds[job_name]) < MaxBuilds
       /\ Step("facade", "build_job", [job_name |-> job_name], "ok", flt,
               build_job(job_name, flt))

SearchArgs(search_string, view_name, is_case_sensitive) ==
  [search_string |-> search_string, view_name |-> view_name,
   is_case_sensitive |-> is_case_sensitive]

Call_search_job ==
  /\ Ready
  /\ \E search_string \in SearchSamples, view_name \in SearchViews,
        is_case_sensitive \in BOOLEAN, flt \in Faults :
       Step("facade", "search_job",
            SearchArgs(search_string, view_name, is_case_sensitive), "ok", flt,
            search_job(search_string, view_name, is_case_sensitive, flt))

\* --- invocations of the registered tools
Tool_is_job_exists ==
  /\ Ready
  /\ \E auth \in AuthAnswers, job_name \in JobNames, flt \in Faults :
       Step("tool", "is_job_exists", [job_name |-> job_name], auth, flt,
            tool_is_job_exists(auth, job_name, flt))

Tool_is_job_queued_or_running ==
  /\ Ready
  /\ \E auth \in AuthAnswers, job_name \in JobNames, flt \in Faults :
       Step("tool", "is_job_queued_or_running", [job_name |-> job_name], auth, flt,
            tool_is_job_queued_or_running(auth, job_name, flt))

Tool_get_job_default_params ==
  /\ Ready
  /\ \E auth \in AuthAnswers, job_name \in JobNames, flt \in Faults :
       Step("tool", "get_job_default_params", [job_name |-> job_name], auth, flt,
            tool_get_job_default_params(auth, job_name, flt))

Tool_get_job_baseurl ==
  /\ Ready
  /\ \E auth \in AuthAnswers, job_name \in JobNames, flt \in Faults :
       Step("tool", "get_job_baseurl", [job_name |-> job_name], auth, flt,
            tool_get_job_baseurl(auth, job_name, flt))

Tool_create_job ==
  /\ Ready
  /\ \E auth \in AuthAnswers, job_name \in JobNames, flt \in Faults :
       Step("tool", "create_job", [job_name |-> job_name], auth, flt,
            tool_create_job(auth, job_name, flt))

Tool_clone_job ==
  /\ Ready
  /\ \E auth \in AuthAnswers, job_name \in JobNames, new_job_name \in JobNames, flt \in Faults :
       Step("tool", "clone_job", [job_name |-> job_name, new_job_name |-> new_job_name], auth, flt,
            tool_clone_job(auth, job_name, new_job_name, flt))

Tool_rename_job ==
  /\ Ready
  /\ \E auth \in AuthAnswers, job_name \in JobNames, new_job_name \in JobNames, flt \in Faults :
       Step("tool", "rename_job", [job_name |-> job_name, new_job_name |-> new_job_name], auth, flt,
            tool_rename_job(auth, job_name, new_job_name, flt))

Tool_delete_job ==
  /\ Ready
  /\ \E auth \in AuthAnswers, job_name \in JobNames, flt \in Faults :
       Step("tool", "delete_job", [job_name |-> job_name], auth, flt,
            tool_delete_job(auth, job_name, flt))

Tool_get_views ==
  /\ Ready
  /\ \E auth \in AuthAnswers, flt \in Faults :
       Step("tool", "get_views", [none |-> TRUE], auth, flt,
            tool_get_views(auth, flt))

Tool_get_jobs_from_view ==
  /\ Ready
  /\ \E auth \in AuthAnswers, view_name \in ViewNames, flt \in Faults :
       Step("tool", "get_jobs_from_view", [view_name |-> view_name], auth, flt,
            tool_get_jobs_from_view(auth, view_name, flt))

Tool_get_view_baseurl ==
  /\ Ready
  /\ \E auth \in AuthAnswers, view_name \in ViewNames, flt \in Faults :
       Step("tool", "get_view_baseurl", [view_name |-> view_name], auth, flt,
            tool_get_view_baseurl(auth, view_name, flt))

Tool_add_job_to_view ==
  /\ Ready
  /\ \E auth \in AuthAnswers, view_name \in ViewNames, job_name \in JobNames, flt \in Faults :
       Step("tool", "add_job_to_view", [view_name |-> view_name, job_name |-> job_name], auth, flt,
            tool_add_job_to_view(auth, view_name, job_name, flt))

Tool_remove_job_from_view ==
  /\ Ready
  /\ \E auth \in AuthAnswers, view_name \in ViewNames, job_name \in JobNames, flt \in Faults :
       Step("tool", "remove_job_from_view",
            [view_name |-> view_name, job_name |-> job_name], auth, flt,
            tool_remove_job_from_view(auth, view_name, job_name, flt))

Tool_stop_last_build ==
  /\ Ready
  /\ \E auth \in AuthAnswers, job_name \in JobNames, flt \in Faults :
       Step("tool", "stop_last_build", [job_name |-> job_name], auth, flt,
            tool_stop_last_build(auth, job_name, flt))

Tool_get_last_build_number ==
  /\ Ready
  /\ \E auth \in AuthAnswers, job_name \in JobNames, flt \in Faults :
       Step("tool", "get_last_build_number", [job_name |-> job_name], auth, flt,
            tool_get_last_build_number(auth, job_name, flt))

Tool_get_last_build_start_time ==
  /\ Ready
  /\ \E auth \in AuthAnswers, job_name \in JobNames, flt \in Faults :
       Step("tool", "get_last_build_start_time", [job_name |-> job_name], auth, flt,
            tool_get_last_build_start_time(auth, job_name, flt))

Tool_get_last_build_duration ==
  /\ Ready
  /\ \E auth \in AuthAnswers, job_name \in JobNames, flt \in Faults :
       Step("tool", "get_last_build_duration", [job_name |-> job_name], auth, flt,
            tool_get_last_build_duration(auth, job_name, flt))

Tool_get_last_build_status ==
  /\ Ready
  /\ \E auth \in AuthAnswers, job_name \in JobNames, flt \in Faults :
       Step("tool", "get_last_build_status", [job_name |-> job_name], auth, flt,
            tool_get_last_build_status(auth, job_name, flt))

Tool_get_last_build_params ==
  /\ Ready
  /\ \E auth \in AuthAnswers, job_name \in JobNames, flt \in Faults :
       Step("tool", "get_last_build_params", [job_name |-> job_name], auth, flt,
            tool_get_last_build_params(auth, job_name, flt))

Tool_get_last_build_console ==
  /\ Ready
  /\ \E auth \in AuthAnswers, job_name \in JobNames, flt \in Faults :
       Step("tool", "get_last_build_console", [job_name |-> job_name], auth, flt,
            tool_get_last_build_console(auth, job_name, flt))

Tool_build_job ==
  /\ Ready
  /\ \E auth \in AuthAnswers, job_name \in JobNames, flt \in Faults :
       /\ Len(builds[job_name]) < MaxBuilds
       /\ Step("tool", "build_job", [job_name |-> job_name], auth, flt,
               tool_build_job(auth, job_name, flt))

Tool_search_job ==
  /\ Ready
  /\ \E auth \in AuthAnswers, search_string \in SearchSamples, view_name \in SearchViews,
        is_case_sensitive \in BOOLEAN, flt \in Faults :
       Step("tool", "search_job",
            SearchArgs(search_string, view_name, is_case_sensitive), auth, flt,
            tool_search_job(auth, search_string, view_name, is_case_sensitive, flt))

Next ==
  \/ Reply
  \/ Construct
  \/ Tool_stop_last_build
  \/ Tool_get_last_build_number
  \/ Tool_get_last_build_start_time
  \/ Tool_get_last_build_duration
  \/ Tool_get_last_build_status
  \/ Tool_get_last_build_params
  \/ Tool_get_last_build_console
  \/ Tool_is_job_exists
  \/ Tool_is_job_queued_or_running
  \/ Tool_get_job_default_params
  \/ Tool_get_job_baseurl
  \/ Tool_search_job
  \/ Tool_create_job
  \/ Tool_clone_job
  \/ Tool_rename_job
  \/ Tool_delete_job
  \/ Tool_build_job
  \/ Tool_get_views
  \/ Tool_get_jobs_from_view
  \/ Tool_get_view_baseurl
  \/ Tool_add_job_to_view
  \/ Tool_remove_job_from_view
  \/ Call_is_job_exists
  \/ Call_is_job_queued_or_running
  \/ Call_get_job
  \/ Call_get_job_default_params
  \/ Call_get_job_baseurl
  \/ Call_create_job
  \/ Call_clone_job
  \/ Call_rename_job
  \/ Call_delete_job
  \/ Call_get_views
  \/ Call_get_view
  \/ Call_get_jobs_from_view
  \/ Call_get_view_baseurl
  \/ Call_add_job_to_view
  \/ Call_remove_job_from_view
  \/ Call_stop_last_build
  \/ Call_get_build
  \/ Call_get_last_build_number
  \/ Call_get_build_start_time
  \/ Call_get_build_duration
  \/ Call_get_build_status
  \/ Call_get_build_params
  \/ Call_get_build_console
  \/ Call_build_job
  \/ Call_search_job

Spec == Init /\ [][Next]_vars

\* ============================== the search specification =====================
\* a server with any job list and any membership of its global view; only
\* search_job is called, with every search string up to the bound
SearchInit ==
  /\ jobs \in DistinctSeqs(SearchNames, MaxJobs)
  /\ views \in [GlobalViews -> DistinctSeqs(Range(jobs), MaxJobs)]
  /\ builds = [n \in AllNames |-> << >>]
  /\ last = Idle

\* view_name arguments of the search specification: None, the global view, a
\* view of the user's my-views and a view that exists nowhere
SearchSpecViews == {NoneStr, "Team-A", "mine", "nope"}

Search ==
  /\ Ready
  /\ \E search_string \in Patterns, view_name \in SearchSpecViews,
        is_case_sensitive \in BOOLEAN, flt \in {"none", "http_status"} :
       Step("facade", "search_job",
            SearchArgs(search_string, view_name, is_case_sensitive), "ok", flt,
            search_job(search_string, view_name, is_case_sensitive, flt))

SearchNext == Search \/ Reply

SearchSpec == SearchInit /\ [][SearchNext]_vars

\* ============================== the credential ===============================
\* Two runs of the same call against the same server, told apart by the secret
\* alone: what each sends to the server, what it logs and what it returns.
\* values of JENKINS_PASSWORD_OR_TOKEN
Secrets == {"hunter2", "s3same", "t0ken"}

\* pydantic's SecretStr: the value is had by get_secret_value alone
get_secret_value(s) == s.secret_value

\* the fields of a JenkinsServer, which a JenkinsAPI copies
JenkinsServer(secret) ==
  [base_url |-> "http://10.64.101.253:8080", username |-> "admin",
   password_or_token |-> [kind |-> "SecretStr", secret_value |-> secret]]

\* Jenkins(baseurl, username, password, timeout): the login the client performs
LoginRequest(self) ==
  [call |-> "Jenkins", url |-> self.base_url, username |-> self.username,
   password |-> get_secret_value(self.password_or_token)]

\* the line model_post_init logs after the login, with the password added
LoginLog_withpassword(self) ==
  [level |-> "INFO", text |-> "[Auth] Welcome {username} login to Jenkins server {base_url}.",
   username |-> self.username, base_url |-> self.base_url,
   password |-> get_secret_value(self.password_or_token)]

\* the line model_post_init logs after the login
LoginLog(self) ==
  [level |-> "INFO", text |-> "[Auth] Welcome {username} login to Jenkins server {base_url}.",
   username |-> self.username, base_url |-> self.base_url]

\* the line the mcp_tool wrapper logs
ToolLog(name) == [level |-> "INFO", text |-> "[Tool] {func.__name__}", name |-> name]

\* requests.get(url, auth=HTTPBasicAuth(username, password)) of the my-views page
MyViewsRequest(self, view_name) ==
  [call |-> "requests.get", url |-> self.base_url, user |-> self.username,
   view |-> view_name, username |-> self.username,
   password |-> get_secret_value(self.password_or_token)]

\* the line logged for an HTTPError of that request; the error names the url
HTTPErrorLog(self, view_name) ==
  [level |-> "ERROR", text |-> "[View][{view_name}] failed to get jobs from my-views: {e}",
   view_name |-> view_name, e |-> "HTTPError", url |-> self.base_url,
   user |-> self.username]

\* constructing a JenkinsServer with this secret
Run_JenkinsServer(secret, auth) ==
  LET self == JenkinsServer(secret)
      m == model_post_init(auth)
  IN [sent |-> <<LoginRequest(self)>>,
      log |-> IF m.exc = "none" /\ m.jenkins_server # None
              THEN <<LoginLog(self)>> ELSE << >>,
      ret |-> m.jenkins_server, exc |-> m.exc]

\* the tool get_jobs_from_view run with this secret
Run_get_jobs_from_view(secret, auth, view_name, flt) ==
  LET self == JenkinsServer(secret)
      api == Run_JenkinsServer(secret, auth)
      o == tool_get_jobs_from_view(auth, view_name, flt)
      fetched == "http_get" \in Range(o.calls)
      refused == fetched /\ o.exc = "none" /\ "response_json" \notin Range(o.calls)
  IN [sent |-> api.sent \o (IF fetched THEN <<MyViewsRequest(self, view_name)>> ELSE << >>),
      log |-> <<ToolLog("get_jobs_from_view")>> \o api.log
              \o (IF refused THEN <<HTTPErrorLog(self, view_name)>> ELSE << >>),
      ret |-> o.ret, exc |-> o.exc]

\* a frozen server
SecretInit ==
  /\ jobs \in DistinctSeqs(JobNames, MaxJobs)
  /\ views \in [GlobalViews -> DistinctSeqs(Range(jobs), MaxJobs)]
  /\ builds = [n \in AllNames |-> << >>]
  /\ last = Idle

\* --- the same call made in two runs that differ in the secret alone
Pair_JenkinsServer ==
  /\ Ready
  /\ \E s1 \in Secrets, s2 \in Secrets, auth \in AuthAnswers :
       /\ s1 # s2
       /\ last' = [layer |-> "pair", op |-> "JenkinsServer",
                   args |-> [secrets |-> <<s1, s2>>], auth |-> auth, fault |-> "none",
                   run1 |-> Run_JenkinsServer(s1, auth),
                   run2 |-> Run_JenkinsServer(s2, auth)]
       /\ UNCHANGED <<jobs, views, builds>>

Pair_get_jobs_from_view ==
  /\ Ready
  /\ \E s1 \in Secrets, s2 \in Secrets, auth \in AuthAnswers, view_name \in ViewNames,
        flt \in {"none", "views", "http_conn", "http_status", "http_json"} :
       /\ s1 # s2
       /\ last' = [layer |-> "pair", op |-> "get_jobs_from_view",
                   args |-> [secrets |-> <<s1, s2>>, view_name |-> view_name],
                   auth |-> auth, fault |-> flt,
                   run1 |-> Run_get_jobs_from_view(s1, auth, view_name, flt),
                   run2 |-> Run_get_jobs_from_view(s2, auth, view_name, flt)]
       /\ UNCHANGED <<jobs, views, builds>>

SecretNext ==
  \/ Pair_JenkinsServer
  \/ Pair_get_jobs_from_view
  \/ Reply

SecretSpec == SecretInit /\ [][SecretNext]_vars

\* ============================== concurrent invocations ========================
\* Two invocations, each with a facade and a connection of its own, run against
\* the one server; a method's existence check and the remote call it guards are
\* separate requests, and the other invocation may run between them.

\* the try block of delete_job that accepts the delete of a job that is gone
delete_try_accepting(job_name) ==
  [ret |-> Bool(TRUE), srv |-> AfterDelete(job_name)]

\* the try block of delete_job: the remote delete, True, or False when it raised
\* (the server refuses the delete of a job it does not have)
delete_try(job_name) ==
  IF HasJob(job_name)
  THEN [ret |-> Bool(TRUE), srv |-> AfterDelete(job_name)]
  ELSE [ret |-> Bool(FALSE), srv |-> Server]

\* two invocations about to start, of any of the three methods
ConcInit ==
  /\ jobs \in DistinctSeqs(JobNames, MaxJobs)
  /\ views \in [GlobalViews -> DistinctSeqs(Range(jobs), MaxJobs)]
  /\ builds = [n \in AllNames |-> << >>]
  /\ \E op1, op2 \in {"get_job", "get_job_default_params", "delete_job"},
        j1, j2 \in JobNames :
       last = [layer |-> "conc", pre |-> Server,
               procs |-> <<[op |-> op1, job_name |-> j1, pc |-> "start",
                            ret |-> None, exc |-> "none"],
                           [op |-> op2, job_name |-> j2, pc |-> "start",
                            ret |-> None, exc |-> "none"]>>]

\* --- `if self.is_job_exists(job_name):` and, for a missing job, the fall through
Conc_check ==
  \E p \in DOMAIN last.procs :
    /\ last.procs[p].pc = "start"
    /\ LET me == last.procs[p]
           e == is_job_exists(me.job_name, "none")
           absent == IF me.op = "delete_job" THEN Bool(FALSE) ELSE None
       IN last' = [last EXCEPT !.procs[p] =
                     IF e.ret.val THEN [me EXCEPT !.pc = "checked"]
                     ELSE [me EXCEPT !.pc = "done", !.ret = absent]]
    /\ UNCHANGED <<jobs, views, builds>>

\* --- `self.jenkins_server.get_job(job_name)`, which raises for an unknown job
Conc_retrieve ==
  \E p \in DOMAIN last.procs :
    /\ last.procs[p].pc = "checked"
    /\ last.procs[p].op \in {"get_job", "get_job_default_params"}
    /\ LET me == last.procs[p]
           got == IF me.op = "get_job" THEN JobObj(me.job_name)
                  ELSE get_job_default_params(me.job_name, "none").ret
       IN last' = [last EXCEPT !.procs[p] =
                     IF HasJob(me.job_name)
                     THEN [me EXCEPT !.pc = "done", !.ret = got]
                     ELSE [me EXCEPT !.pc = "done", !.exc = "UnknownJob"]]
    /\ UNCHANGED <<jobs, views, builds>>

\* --- the try block of delete_job
Conc_delete ==
  \E p \in DOMAIN last.procs :
    /\ last.procs[p].pc = "checked"
    /\ last.procs[p].op = "delete_job"
    /\ LET me == last.procs[p]
           o == delete_try(me.job_name)
       IN /\ last' = [last EXCEPT !.procs[p] = [me EXCEPT !.pc = "done", !.ret = o.ret]]
          /\ jobs' = o.srv.jobs
          /\ views' = o.srv.views
          /\ builds' = o.srv.builds

ConcNext ==
  \/ Conc_check
  \/ Conc_retrieve
  \/ Conc_delete

ConcSpec == ConcInit /\ [][ConcNext]_vars

\* ============================== properties ===================================
FacadeCall(op) == last.layer = "facade" /\ last.op = op
ToolCall(op) == last.layer = "tool" /\ last.op = op
\* every remote call the operation issued was answered by the server
Answered == last.fault = "none"
\* the job the call names was not on the server when the call was made
JobMissing == last.args.job_name \notin Range(last.pre.jobs)
ServerUnchanged == Server = last.pre

\* remote calls that change the server
MutatingCalls ==
  {"create_job", "copy_job", "rename_job", "delete_job", "build_job", "add_job",
   "remove_job", "stop"}

\* the operations that depend on the job's existence
DependentOps ==
  {"get_job", "get_job_default_params", "get_job_baseurl", "clone_job", "rename_job",
   "delete_job", "build_job"}

\* C1: for a job name that is not on the server, is_job_exists returns False, and
\* get_job, get_job_default_params, get_job_baseurl, clone_job, rename_job,
\* delete_job and build_job return None or False, raise nothing and issue no
\* mutating remote call (the server answering the existence query).
C1_MissingJobIsAbsence ==
  /\ (FacadeCall("is_job_exists") /\ JobMissing /\ Answered)
       => (last.exc = "none" /\ last.ret = Bool(FALSE))
  /\ (last.layer = "facade" /\ last.op \in DependentOps /\ JobMissing /\ Answered)
       => /\ last.exc = "none"
          /\ last.ret \in {None, Bool(FALSE)}
          /\ Range(last.calls) \cap MutatingCalls = {}
          /\ ServerUnchanged

C1_Witness ==
  /\ FacadeCall("delete_job") /\ JobMissing /\ Answered
  /\ last.pre.jobs # << >>
  /\ last.ret = Bool(FALSE)

\* C2: is_job_queued_or_running of a job that does not exist returns False without
\* a fault, and the tool then answers that the job is not queued or running.
C2_QueuedOrRunningOfMissingJob ==
  /\ (FacadeCall("is_job_queued_or_running") /\ JobMissing /\ Answered)
       => (last.exc = "none" /\ last.ret = Bool(FALSE))
  /\ (ToolCall("is_job_queued_or_running") /\ JobMissing /\ Answered /\ last.auth = "ok")
       => (last.exc = "none"
           /\ last.ret = Msg("Job {job_name} is not queued or running.", None))

\* C3: no method of the facade lets a fault reach its caller: whatever remote call
\* fails, the method returns and raises nothing.
C3_FacadeNeverRaises == last.layer = "facade" => last.exc = "none"

\* C4: constructing JenkinsServer when the login fails raises nothing: an error is
\* logged and the jenkins_server handle is None.
C4_FailedLoginIsLogged ==
  (last.layer = "init" /\ last.auth # "ok")
    => /\ last.exc = "none"
       /\ last.ret = None
       /\ \E i \in 1..Len(last.log) : last.log[i].level = "ERROR"

\* C5: every registered tool calls a method JenkinsAPI defines and returns a single
\* string, whatever its arguments (the server answering every call).
C5_ToolsReturnAString ==
  (last.layer = "tool" /\ last.auth = "ok")
    => /\ last.op \in JenkinsAPIMethods
       /\ Answered => (last.exc = "none" /\ last.ret.kind = "str")

\* --- what search_job is to compute, stated without the regular expression engine
IsSubstring(s, name) ==
  \E i \in 1..(Len(name) - Len(s) + 1) : SubSeq(name, i, i + Len(s) - 1) = s
Folded(s) == [i \in 1..Len(s) |-> IF s[i] = "A" THEN "a" ELSE s[i]]
Contains(s, name, is_case_sensitive) ==
  IF is_case_sensitive THEN IsSubstring(s, name)
  ELSE IsSubstring(Folded(s), Folded(name))

\* the names a my-views document lists
PersonalNames(doc) ==
  IF "jobs" \notin DOMAIN doc THEN << >>
  ELSE LET Named(i) == "name" \in DOMAIN doc.jobs[i]
           RECURSIVE From(_)
           From(i) == IF i > Len(doc.jobs) THEN << >>
                      ELSE IF Named(i) THEN <<doc.jobs[i].name>> \o From(i + 1)
                      ELSE From(i + 1)
       IN From(1)

ViewGiven == last.args.view_name \notin {NoneStr, ""}
\* the view of the call resolves, on the global path or on the per-user path
ViewResolves ==
  \/ last.args.view_name \in GlobalViews
  \/ last.args.view_name \in DOMAIN MyViews /\ last.fault # "http_status"
\* the jobs of the view of the call
ViewJobs ==
  IF last.args.view_name \in GlobalViews THEN views[last.args.view_name]
  ELSE IF last.args.view_name \in DOMAIN MyViews
  THEN PersonalNames(MyViews[last.args.view_name])
  ELSE << >>
\* the list a search is made in
SearchedList ==
  IF ~ViewGiven THEN jobs ELSE IF ViewResolves THEN ViewJobs ELSE << >>
SearchReturned == FacadeCall("search_job") /\ last.exc = "none"

\* C6: search_job takes search_string literally: a name of the searched list is in
\* the result exactly if it contains search_string as a substring (up to case when
\* is_case_sensitive is False), whatever characters search_string is made of.
C6_SearchIsLiteralSubstring ==
  SearchReturned =>
    \A name \in Range(SearchedList) :
      name \in Range(last.ret.val)
        <=> Contains(last.args.search_string, name, last.args.is_case_sensitive)

C6_Witness ==
  /\ SearchReturned
  /\ last.args.search_string = n_a_dot_b
  /\ last.args.is_case_sensitive
  /\ n_axb \in Range(SearchedList)
  /\ last.ret.val = <<n_a_dot_b>>

\* C7: on the same job list, view and search string, the case-insensitive search
\* returns every name the case-sensitive search returns.
C7_InsensitiveIsSuperset ==
  (SearchReturned /\ last.args.is_case_sensitive)
    => LET insensitive == search_job(last.args.search_string, last.args.view_name,
                                     FALSE, last.fault)
       IN /\ insensitive.exc = "none"
          /\ Range(last.ret.val) \subseteq Range(insensitive.ret.val)

C7_Witness ==
  /\ SearchReturned /\ last.args.is_case_sensitive
  /\ last.args.search_string = <<"A">>
  /\ last.ret.val = <<n_A_dot_b>>
  /\ Len(search_job(last.args.search_string, last.args.view_name, FALSE,
                    last.fault).ret.val) > 1

\* C8: the result of search_job is the searched list with the names that do not
\* match left out: the matching names, all of them, in the order of that list.
C8_SearchKeepsSourceOrder ==
  SearchReturned =>
    LET Matches(name) ==
          Contains(last.args.search_string, name, last.args.is_case_sensitive)
    IN last.ret.val = SelectSeq(SearchedList, Matches)

C8_Witness ==
  /\ SearchReturned
  /\ last.args.view_name = NoneStr
  /\ jobs = <<n_axb, n_a_dot_b>>
  /\ last.ret.val = <<n_axb, n_a_dot_b>>

\* C9: with a view name, search_job searches the jobs of the global view, else the
\* jobs get_jobs_from_view finds on the per-user path; when the view resolves on
\* neither path the result is empty, and the list of all jobs is never asked for.
C9_SearchInViewOnly ==
  (FacadeCall("search_job") /\ ViewGiven)
    => /\ "get_jobs_list" \notin Range(last.calls)
       /\ last.exc = "none" =>
            /\ Range(last.ret.val) \subseteq Range(ViewJobs)
            /\ (ViewResolves /\ last.args.search_string = << >>) => last.ret.val = ViewJobs
            /\ ~ViewResolves => last.ret.val = << >>

C9_Witness ==
  /\ SearchReturned /\ ViewGiven /\ ~ViewResolves
  /\ last.args.search_string = << >>
  /\ jobs # << >>
  /\ last.ret.val = << >>

\* C10: get_jobs_from_view returns an empty list for a view that resolves and has
\* no jobs, and None for a view that resolves on neither the global nor the
\* per-user path.
C10_EmptyViewIsNotMissingView ==
  (FacadeCall("get_jobs_from_view") /\ last.fault \in {"none", "http_status"})
    => /\ last.exc = "none"
       /\ (ViewResolves /\ ViewJobs = << >>) => last.ret = List(<< >>)
       /\ ~ViewResolves => last.ret = None

C10_Witness ==
  /\ FacadeCall("get_jobs_from_view")
  /\ last.args.view_name \in GlobalViews
  /\ last.pre.jobs # << >>
  /\ last.ret = List(<< >>)

\* how often the operation issued the remote call c
Issued(c) == Cardinality({i \in 1..Len(last.calls) : last.calls[i] = c})
\* the builds the named job had when the call was made
BuildsBefore == last.pre.builds[last.args.job_name]

\* C11: stop_last_build of an existing job without a last build returns False and
\* issues no stop; with a last build it issues exactly one stop and returns what
\* that stop returned: True when the build was running, False when it was not.
C11_StopLastBuild ==
  (FacadeCall("stop_last_build") /\ ~JobMissing /\ Answered)
    => /\ last.exc = "none"
       /\ BuildsBefore = << >>
            => (last.ret = Bool(FALSE) /\ Issued("stop") = 0 /\ ServerUnchanged)
       /\ BuildsBefore # << >>
            => /\ Issued("stop") = 1
               /\ last.ret = Bool(BuildsBefore[Len(BuildsBefore)])

C11_Witness ==
  /\ FacadeCall("stop_last_build") /\ ~JobMissing /\ Answered
  /\ BuildsBefore # << >>
  /\ Issued("stop") = 1
  /\ last.ret = Bool(TRUE)
  /\ ~IsRunning(last.args.job_name)

\* the operations that resolve a build from a job name and a build number
ByNumberOps ==
  {"get_build", "get_build_status", "get_build_duration", "get_build_params",
   "get_build_console"}
\* the outstanding operation, asked again with build_number n of the same job
AskedWith(n) ==
  LET j == last.args.job_name
  IN CASE last.op = "get_build" -> get_build(j, n, "none")
       [] last.op = "get_build_status" -> get_build_status(j, n, "none")
       [] last.op = "get_build_duration" -> get_build_duration(j, n, "none")
       [] last.op = "get_build_params" -> get_build_params(j, n, "none")
       [] last.op = "get_build_console" -> get_build_console(j, n, "none")

\* C12: for a job with exactly one build, asking for the build without a number
\* and asking for it with the last build's number give the same build: the same
\* number, status, duration, parameters and console.
C12_LastBuildByNumber ==
  (/\ last.layer = "facade" /\ last.op \in ByNumberOps
   /\ ~JobMissing /\ Answered
   /\ Len(BuildsBefore) = 1
   /\ last.args.build_number \in {NoBuildNumber, Len(BuildsBefore)})
    => /\ last.exc = "none"
       /\ last.ret = AskedWith(NoBuildNumber).ret
       /\ last.ret = AskedWith(Len(BuildsBefore)).ret

C12_Witness ==
  /\ FacadeCall("get_build_status") /\ ~JobMissing /\ Answered
  /\ Len(BuildsBefore) = 1
  /\ last.args.build_number = Len(BuildsBefore)
  /\ last.ret = Str("ABORTED")
  /\ last.ret = AskedWith(NoBuildNumber).ret

\* what is_job_exists answers for the job of the outstanding call, asked next
ExistsNext == is_job_exists(last.args.job_name, "none")

\* C13: is_job_exists(x) asked right after create_job(x) returns True, and asked
\* right after delete_job(x) it returns False.
C13_CreateDeleteRoundTrip ==
  /\ (FacadeCall("create_job") /\ Answered)
       => /\ last.ret = JobObj(last.args.job_name)
          /\ ExistsNext.exc = "none" /\ ExistsNext.ret = Bool(TRUE)
  /\ (FacadeCall("delete_job") /\ Answered)
       => /\ last.exc = "none"
          /\ ExistsNext.exc = "none" /\ ExistsNext.ret = Bool(FALSE)

C13_Witness ==
  /\ FacadeCall("delete_job") /\ Answered
  /\ ~JobMissing
  /\ last.ret = Bool(TRUE)
  /\ ExistsNext.ret = Bool(FALSE)

\* the mutating and build-scoped operations
ScopedOps ==
  {"create_job", "clone_job", "rename_job", "delete_job", "build_job",
   "add_job_to_view", "remove_job_from_view", "stop_last_build", "get_build"}
\* the remote calls an operation is made for
OwnCalls(op) ==
  CASE op = "create_job" -> {"create_job"}
    [] op = "clone_job" -> {"copy_job"}
    [] op = "rename_job" -> {"rename_job"}
    [] op = "delete_job" -> {"delete_job"}
    [] op = "build_job" -> {"build_job"}
    [] op = "add_job_to_view" -> {"add_job"}
    [] op = "remove_job_from_view" -> {"remove_job"}
    [] op = "stop_last_build" -> {"get_last_build", "stop"}
    [] op = "get_build" -> {"get_last_build", "get_build"}
\* the operations that retrieve the job before working on it
RetrievingOps == {"stop_last_build", "get_build"}
\* before its i-th remote call the operation asked whether the job exists and was
\* told it does, and, where it works on the job object, retrieved it
CheckedBefore(i) ==
  /\ ~JobMissing
  /\ \E j \in 1..(i - 1) : last.calls[j] = "has_job"
  /\ last.op \in RetrievingOps => \E j \in 1..(i - 1) : last.calls[j] = "get_job"
\* every operation of ops issues its own remote calls only after the check
CheckedFirst(ops) ==
  (last.layer = "facade" /\ last.op \in ops)
    => \A i \in 1..Len(last.calls) :
         last.calls[i] \in OwnCalls(last.op) => CheckedBefore(i)

\* C14 as stated: each of create_job, clone_job, rename_job, delete_job, build_job,
\* add_job_to_view, remove_job_from_view, stop_last_build and get_build checks that
\* the job exists, with a positive answer, before it issues its remote call.
C14_CheckBeforeRemoteCall == CheckedFirst(ScopedOps)

\* C14 amended: clone_job, rename_job, delete_job, build_job, add_job_to_view,
\* remove_job_from_view, stop_last_build and get_build issue their remote call only
\* after a positive existence check in the same operation; create_job issues its
\* create call at once, without any check.
C14_CheckBeforeRemoteCallExceptCreate ==
  /\ CheckedFirst(ScopedOps \ {"create_job"})
  /\ FacadeCall("create_job") => last.calls = <<"create_job">>

C14_Witness ==
  /\ FacadeCall("build_job") /\ ~JobMissing
  /\ last.calls = <<"has_job", "build_job">>
  /\ last.ret = Bool(TRUE)

\* the messages of the tools that begin with the words "Failed to"
FailedToTexts ==
  {"Failed to get default parameters for job {job_name}.",
   "Failed to get base URL for job {job_name}.",
   "Failed to create job {job_name}.",
   "Failed to clone job {job_name} to {new_job_name}.",
   "Failed to rename job {job_name} to {new_job_name}.",
   "Failed to delete job {job_name}.",
   "Failed to trigger build for job {job_name}.",
   "Failed to retrieve base URL for view {view_name}.",
   "Failed to add job {job_name} to view {view_name}.",
   "Failed to remove job {job_name} from view {view_name}.",
   "Failed to stop the last build for job {job_name}.",
   "Failed to retrieve last build number for job {job_name}.",
   "Failed to retrieve last build start time for job {job_name}.",
   "Failed to retrieve last build duration for job {job_name}.",
   "Failed to retrieve last build status for job {job_name}.",
   "Failed to retrieve last build parameters for job {job_name}.",
   "Failed to retrieve last build console output for job {job_name}."}
BeginsWithFailedTo(text) == text \in FailedToTexts

\* the tools whose second message is a negative answer in words of its own
NegativeAnswer ==
  [is_job_exists |-> "Job {job_name} does not exist.",
   is_job_queued_or_running |-> "Job {job_name} is not queued or running.",
   search_job |-> "No matching jobs found.",
   get_views |-> "No views found.",
   get_jobs_from_view |-> "No jobs found in view {view_name}."]

\* a tool handed a message to its caller
ToolReturned == last.layer = "tool" /\ last.exc = "none"
\* the tool returned its second message, the one without a value
SecondMessage == last.ret.val.value = None
\* the facade result the tool got was None, False or empty
FacadeResultFalsy == SecondMessage \/ ~Truthy(last.ret.val.value)

MembershipOps == {"add_job_to_view", "remove_job_from_view"}
MembershipCall == IF last.op = "add_job_to_view" THEN "add_job" ELSE "remove_job"
\* the view the call names was a global view of the server when the call was made
ViewIsGlobal == last.args.view_name \in DOMAIN last.pre.views

\* C16: add_job_to_view and remove_job_from_view return True only for a global view
\* and an existing job, after issuing the add resp. remove call; when the view is
\* not global or the job does not exist they return False, issue no such call and
\* leave every view's membership as it was.
C16_MembershipNeedsViewAndJob ==
  (last.layer = "facade" /\ last.op \in MembershipOps)
    => /\ last.ret = Bool(TRUE)
            => (ViewIsGlobal /\ ~JobMissing /\ Issued(MembershipCall) = 1)
       /\ ((~ViewIsGlobal \/ JobMissing) /\ Answered)
            => /\ last.exc = "none"
               /\ last.ret = Bool(FALSE)
               /\ Issued(MembershipCall) = 0
               /\ views = last.pre.views

C16_Witness ==
  /\ FacadeCall("add_job_to_view")
  /\ last.ret = Bool(TRUE)
  /\ last.args.job_name \notin Range(last.pre.views[last.args.view_name])
  /\ last.args.job_name \in Range(views[last.args.view_name])

\* what get_jobs_from_view answers for the view of the outstanding call, asked next
ListedNext == get_jobs_from_view(last.args.view_name, "none")
\* the members the view had when the call was made
MembersBefore == last.pre.views[last.args.view_name]
\* the members of the list l that the view already had, in the order of l
OldMembers(l) ==
  LET WasMember(x) == x \in Range(MembersBefore)
  IN SelectSeq(l, WasMember)

\* C17: get_jobs_from_view(v) asked right after add_job_to_view(v, j), for a global
\* view v and an existing job j, returns a list that includes j and lists the jobs
\* v already had in the order they had before.
C17_AddedJobIsListed ==
  (FacadeCall("add_job_to_view") /\ ViewIsGlobal /\ ~JobMissing /\ Answered)
    => /\ last.ret = Bool(TRUE)
       /\ ListedNext.exc = "none"
       /\ ListedNext.ret.kind = "list"
       /\ last.args.job_name \in Range(ListedNext.ret.val)
       /\ OldMembers(ListedNext.ret.val) = MembersBefore

C17_Witness ==
  /\ FacadeCall("add_job_to_view") /\ ViewIsGlobal /\ ~JobMissing /\ Answered
  /\ MembersBefore # << >>
  /\ last.args.job_name \notin Range(MembersBefore)
  /\ ListedNext.ret = List(Append(MembersBefore, last.args.job_name))

\* the parameters the job of the outstanding call declares
Declared == DeclaredParams(last.args.job_name)

\* C18: get_job_default_params of an existing job returns a mapping whose keys are
\* exactly the names of the parameters the job declares, each mapped to that
\* parameter's default value (the empty mapping when it declares none); of a
\* missing job it returns None.
C18_DefaultParamsExact ==
  (FacadeCall("get_job_default_params") /\ Answered)
    => /\ last.exc = "none"
       /\ JobMissing => last.ret = None
       /\ ~JobMissing
            => /\ last.ret.kind = "dict"
               /\ DOMAIN last.ret.val =
                    {Declared[i].defaultParameterValue.name : i \in 1..Len(Declared)}
               /\ \A i \in 1..Len(Declared) :
                    last.ret.val[Declared[i].defaultParameterValue.name] =
                      Declared[i].defaultParameterValue.value

C18_Witness ==
  /\ FacadeCall("get_job_default_params") /\ Answered /\ ~JobMissing
  /\ last.ret = Dict([ENV |-> "staging"])

\* the prompt of this name takes the parameters of the tool of this name, with the
\* same defaults (in whatever order)
SameParameters(name) ==
  Range(Registered.prompts[name]) = Range(Registered.tools[name])

\* C19: prompts and tools correspond one to one: the tool that is called has a
\* prompt of its name taking the same parameters with the same defaults, and every
\* registered prompt is the prompt of a registered tool.
C19_PromptPerTool ==
  last.layer = "tool"
    => /\ last.op \in DOMAIN Registered.tools
       /\ last.op \in DOMAIN Registered.prompts
       /\ SameParameters(last.op)
       /\ DOMAIN Registered.prompts \subseteq DOMAIN Registered.tools

\* everything a log line says
Said(line) == {line[f] : f \in DOMAIN line}
\* the lines of a run that say one of the secrets
Leaks(run) == {i \in 1..Len(run.log) : Said(run.log[i]) \cap Secrets # {}}

\* C20: two runs of a call that differ in the secret alone and get the same answers
\* from the server log the same lines and return the same result, and no line
\* either of them logs contains a secret.
C20_SecretNotObservable ==
  last.layer = "pair"
    => /\ last.run1.log = last.run2.log
       /\ last.run1.ret = last.run2.ret
       /\ last.run1.exc = last.run2.exc
       /\ Leaks(last.run1) = {} /\ Leaks(last.run2) = {}

C20_Witness ==
  /\ last.layer = "pair" /\ last.op = "get_jobs_from_view"
  /\ last.args.secrets[1] # last.args.secrets[2]
  /\ Len(last.run1.sent) = 2
  /\ last.run1.sent[2].password = last.args.secrets[1]
  /\ last.run2.sent[2].password = last.args.secrets[2]
  /\ \E i \in 1..Len(last.run1.log) : last.run1.log[i].level = "ERROR"
  /\ last.run1.ret = Msg("No jobs found in view {view_name}.", None)

\* the my-views document the server holds for the view of the outstanding call
PersonalDoc == MyViews[last.args.view_name]
\* the call went down the per-user path and the server answered it with a document
PersonalAnswered ==
  /\ FacadeCall("get_jobs_from_view")
  /\ last.args.view_name \notin DOMAIN last.pre.views
  /\ last.args.view_name \in DOMAIN MyViews
  /\ Answered

\* C21: on the per-user path get_jobs_from_view returns the names of the entries
\* of the response's jobs array that have a name, in the array's order, skipping
\* every entry without one; an entry without a name does not abort the call, and
\* a response without a jobs key gives the empty list.
C21_NamelessEntriesSkipped ==
  PersonalAnswered
    => /\ last.exc = "none"
       /\ last.ret = List(PersonalNames(PersonalDoc))
       /\ "jobs" \notin DOMAIN PersonalDoc => last.ret = List(<< >>)
       /\ "jobs" \in DOMAIN PersonalDoc
            => Len(last.ret.val) =
                 Cardinality({i \in 1..Len(PersonalDoc.jobs) :
                                "name" \in DOMAIN PersonalDoc.jobs[i]})

C21_Witness ==
  /\ PersonalAnswered
  /\ \E i \in 1..Len(PersonalDoc.jobs) : "name" \notin DOMAIN PersonalDoc.jobs[i]
  /\ last.ret = List(<<n_a_dot_b, n_A_dot_b>>)

\* delete_job(x) made in this state reports False, issues no remote delete and
\* leaves the server as it is
DeleteReportsFalse(x) ==
  LET again == delete_job(x, "none")
  IN /\ again.exc = "none"
     /\ again.ret = Bool(FALSE)
     /\ "delete_job" \notin Range(again.calls)
     /\ again.srv = Server

\* C22: once delete_job(x) has returned True the job is gone, and as long as no
\* call has put x back, a further delete_job(x) returns False, issues no remote
\* delete and leaves the job set unchanged.
C22_SecondDeleteReportsFalse ==
  /\ (FacadeCall("delete_job") /\ last.ret = Bool(TRUE))
       => (~HasJob(last.args.job_name) /\ DeleteReportsFalse(last.args.job_name))
  /\ \A x \in JobNames : ~HasJob(x) => DeleteReportsFalse(x)

C22_Witness ==
  /\ FacadeCall("delete_job") /\ last.ret = Bool(TRUE)
  /\ last.args.job_name \in Range(last.pre.jobs)
  /\ delete_job(last.args.job_name, "none").calls = <<"has_job">>
  /\ delete_job(last.args.job_name, "none").ret = Bool(FALSE)

\* the build projections, each with the field it projects
ProjectedField ==
  [get_last_build_number |-> "number", get_build_start_time |-> "start_time",
   get_build_duration |-> "duration", get_build_status |-> "status",
   get_build_params |-> "params", get_build_console |-> "console"]
\* the build_number the outstanding projection was called with
AskedNumber ==
  IF "build_number" \in DOMAIN last.args THEN last.args.build_number ELSE NoBuildNumber
\* the build of that job and number cannot be resolved: the job is missing, it was
\* never built, or it has no build of the given number
Unresolvable ==
  \/ JobMissing
  \/ AskedNumber = NoBuildNumber /\ BuildsBefore = << >>
  \/ AskedNumber # NoBuildNumber /\ AskedNumber \notin 1..Len(BuildsBefore)
\* the number of the build that is resolved
ResolvedNumber == IF AskedNumber = NoBuildNumber THEN Len(BuildsBefore) ELSE AskedNumber

\* C23: every build projection returns None when the build cannot be resolved (the
\* job is missing, it has never been built, or the given build_number is not one
\* of its builds), and otherwise the projected field of the resolved build.
C23_UnresolvedBuildIsNone ==
  (last.layer = "facade" /\ last.op \in DOMAIN ProjectedField /\ Answered)
    => /\ last.exc = "none"
       /\ Unresolvable => last.ret = None
       /\ ~Unresolvable
            => last.ret = BuildField(ProjectedField[last.op],
                                     BuildObj(last.args.job_name, ResolvedNumber))

\* C24: a job that another invocation deletes between the existence check and the
\* retrieval is reported as absent: get_job and get_job_default_params return None
\* and never raise.
C24_NotFoundIsNeverThrown ==
  last.layer = "conc"
    => \A p \in DOMAIN last.procs :
         (/\ last.procs[p].op \in {"get_job", "get_job_default_params"}
          /\ last.procs[p].pc = "done"
          /\ ~HasJob(last.procs[p].job_name))
           => (last.procs[p].exc = "none" /\ last.procs[p].ret = None)

\* both invocations are delete_job of one job the server had, and both are done
BothDeleted ==
  /\ last.layer = "conc"
  /\ \A p \in DOMAIN last.procs : last.procs[p].op = "delete_job" /\ last.procs[p].pc = "done"
  /\ last.procs[1].job_name = last.procs[2].job_name
  /\ last.procs[1].job_name \in Range(last.pre.jobs)

NoJobsFound == Msg("No jobs found in view {view_name}.", None)

\* C26: the get_jobs_from_view tool returns the same message, "No jobs found in
\* view <name>.", for a view that resolves and has no jobs and for a view that does
\* not resolve at all.
C26_EmptyAndMissingViewSameMessage ==
  (ToolCall("get_jobs_from_view") /\ last.exc = "none")
    => /\ (ViewResolves /\ ViewJobs = << >>) => last.ret = NoJobsFound
       /\ ~ViewResolves => last.ret = NoJobsFound
       /\ last.ret = NoJobsFound => (~ViewResolves \/ ViewJobs = << >>)

C26_Witness ==
  /\ ToolCall("get_jobs_from_view") /\ last.exc = "none"
  /\ ~ViewResolves
  /\ last.ret = NoJobsFound
  /\ \E v \in GlobalViews :
       /\ views[v] = << >>
       /\ tool_get_jobs_from_view("ok", v, "none").ret = last.ret

\* the operations that only ask
QueryOps ==
  {"is_job_exists", "is_job_queued_or_running", "get_job", "get_job_default_params",
   "get_job_baseurl", "search_job", "get_views", "get_view", "get_jobs_from_view",
   "get_view_baseurl", "get_build", "get_last_build_number", "get_build_start_time",
   "get_build_duration", "get_build_status", "get_build_params", "get_build_console"}

\* C27: a query operation issues no create, copy, rename, delete, build, stop,
\* add-to-view or remove-from-view call, and the jobs, the view membership and the
\* builds are the same after it as before, whether it returns or raises.
C27_QueriesLeaveServerUnchanged ==
  (last.layer = "facade" /\ last.op \in QueryOps)
    => /\ Range(last.calls) \cap MutatingCalls = {}
       /\ ServerUnchanged

C27_Witness ==
  /\ FacadeCall("get_job") /\ Answered
  /\ JobMissing
  /\ last.ret = None
  /\ last.calls # << >>
  /\ jobs # << >>
  /\ ServerUnchanged

====
